---- MODULE Spec2Model ----
(***************************************************************************)
(* Model of describe/descriptors/acsf.py: the ACSF descriptor object, its  *)
(* guarded property setters, its constructor, describe() and               *)
(* get_number_of_features().                                               *)
(*                                                                         *)
(* Python values are records tagged by k: None, a list of scalars          *)
(* ("list"), a list of equal-length lists ("lol"), a numpy array           *)
(* ("ndarray", with its shape and its row-major data).  Real numbers are   *)
(* stood for by small integers.  A ctypes pointer to an input array is the *)
(* array it points to; the pointer to the output buffer is the id of the   *)
(* buffer in the heap, because that array is written through the pointer.  *)
(***************************************************************************)
EXTENDS Integers, Sequences, FiniteSets, TLC

VARIABLES numpy, phase, self, heap, call, raised, ret, held, ctor, pc, sys, tret, row, tmp

vars == <<numpy, phase, self, heap, call, raised, ret, held, ctor, pc, sys, tret, row, tmp>>

(***************************** bounds **************************************)
MaxAtoms == 3
MaxTypesLen == 2

(************************* program constants *******************************)
TypeIDLen == 100
DefaultRcut == 5

(***************************** values **************************************)
None == [k |-> "None"]
NULL == [k |-> "NULL"]
NoException == "NoException"

Arr(by, shape, data) == [k |-> "ndarray", by |-> by, shape |-> shape, data |-> data]
PyList(v) == [k |-> "list", v |-> v]
PyLoL(v) == [k |-> "lol", v |-> v]

RECURSIVE Concat(_)
Concat(rows) == IF rows = << >> THEN << >> ELSE Head(rows) \o Concat(Tail(rows))

RECURSIVE Product(_)
Product(shape) == IF shape = << >> THEN 1 ELSE Head(shape) * Product(Tail(shape))

\* np.array(value): a flat list becomes a vector (an empty list has shape
\* (0,)), a list of equal-length lists a matrix.
NpArray(by, value) ==
    IF value.k = "list" THEN Arr(by, <<Len(value.v)>>, value.v)
    ELSE Arr(by, <<Len(value.v), Len(value.v[1])>>, Concat(value.v))

Ndim(a) == Len(a.shape)
Size(a) == Product(a.shape)

Range(s) == {s[i] : i \in 1..Len(s)}

RECURSIVE SortedSeq(_)
SortedSeq(S) ==
    IF S = {} THEN << >>
    ELSE LET m == CHOOSE x \in S : \A y \in S : x <= y
         IN <<m>> \o SortedSeq(S \ {m})

\* np.unique on a vector: the distinct elements, ascending.
NpUnique(a) == LET u == SortedSeq(Range(a.data)) IN Arr(a.by, <<Len(u)>>, u)

RECURSIVE Insert(_, _)
Insert(x, s) ==
    IF s = << >> THEN <<x>>
    ELSE IF x <= Head(s) THEN <<x>> \o s
    ELSE <<Head(s)>> \o Insert(x, Tail(s))

RECURSIVE InsertionSort(_)
InsertionSort(s) == IF s = << >> THEN << >> ELSE Insert(Head(s), InsertionSort(Tail(s)))

\* np.sort on a vector: same elements, ascending.
NpSort(a) == Arr(a.by, a.shape, InsertionSort(a.data))

\* np.in1d(a, b): for each element of a, whether it occurs in b.
NpIn1d(a, b) == [i \in 1..Len(a.data) |-> a.data[i] \in Range(b.data)]

\* np.unique on a boolean vector (False sorts before True).
NpUniqueBool(bs) ==
    (IF FALSE \in Range(bs) THEN <<FALSE>> ELSE << >>)
    \o (IF TRUE \in Range(bs) THEN <<TRUE>> ELSE << >>)

\* np.zeros(shape): every element is 0.0, the empty sum.
Zero == {}
NpZeros(by, shape) == Arr(by, shape, [i \in 1..Product(shape) |-> Zero])

\* ndarray.flatten(): a copy, one-dimensional, row-major.
NpFlatten(by, a) == Arr(by, <<Product(a.shape)>>, a.data)

(***************************** errors **************************************)
ErrNAtomsMax == "ValueError: Maximum number of atoms n_atoms_max should be positive."
ErrTypesLocked == "ValueError: Cannot change the atomic types."
ErrTypesNone == "ValueError: Atomic types cannot be None."
ErrTypesVector == "ValueError: Atomic types should be a vector of integers."
ErrTypeIDIndex == "IndexError: invalid index"
ErrBondLocked == "ValueError: Cannot change 2-body ACSF parameters."
ErrBondShape == "ValueError: arghhh! bond_params should be a matrix with two columns (eta, Rs)."
ErrCosLocked == "ValueError: Cannot change 2-body Cos-type ACSF parameters."
ErrCosShape == "ValueError: arghhh! bond_cos_params should be a vector."
ErrAngLocked == "ValueError: Cannot change 3-body ACSF parameters."
ErrAngShape == "ValueError: arghhh! ang_params should be a matrix with three columns (eta, zeta, lambda)."
ErrNoTypes == "ValueError: No atomic types declared for the descriptor."
ErrTooManyAtoms == "ValueError: The system has more atoms than n_atoms_max."
ErrUndeclared == "ValueError: The system has types that were not declared."
ErrIsinIndex == "IndexError: index 0 is out of bounds for axis 0 with size 0"
ErrAmbiguous == "ValueError: The truth value of an array with more than one element is ambiguous. Use a.any() or a.all()"

Ok(s) == [st |-> s, err |-> NoException]
Raise(s, e) == [st |-> s, err |-> e]

(************************ the native struct ********************************)
\* ACSFObject(): ctypes zero-initialises every field.
ACSFObject ==
    [natm |-> 0, Z |-> NULL, positions |-> NULL, nTypes |-> 0, types |-> NULL,
     typeID |-> [i \in 0..(TypeIDLen - 1) |-> 0], nSymTypes |-> 0, cutoff |-> 0,
     n_bond_params |-> 0, bond_params |-> NULL,
     n_bond_cos_params |-> 0, bond_cos_params |-> NULL,
     n_ang_params |-> 0, ang_params |-> NULL,
     distances |-> NULL, nG2 |-> 0, nG3 |-> 0, G2 |-> NULL, G3 |-> NULL,
     acsfs |-> NULL, alloc_atoms |-> 0, alloc_work |-> 0]

(***************************** setters *************************************)
\* for i in range(n): self._obj.typeID[self._types[i]] = i
\* A ctypes array of 100 ints counts a negative index from its end and
\* raises IndexError for an index outside -100..99.
RECURSIVE TypeIDLoop(_, _)
TypeIDLoop(s, i) ==
    IF i >= s._types.shape[1] THEN Ok(s)
    ELSE LET z == s._types.data[i + 1]
             idx == IF z < 0 THEN z + TypeIDLen ELSE z
         IN
         IF idx < 0 \/ idx >= TypeIDLen THEN Raise(s, ErrTypeIDIndex)
         ELSE TypeIDLoop([s EXCEPT !._obj.typeID[idx] = i], i + 1)

types_setter(s, value) ==
    IF s._inited THEN Raise(s, ErrTypesLocked)
    ELSE IF value = None THEN Raise(s, ErrTypesNone)
    ELSE LET pmatrix == NpArray("init", value) IN
         IF Ndim(pmatrix) # 1 THEN Raise(s, ErrTypesVector)
         ELSE LET u == NpSort(NpUnique(pmatrix))
                  n == u.shape[1]
              IN TypeIDLoop([s EXCEPT !._types = u,
                                      !._obj.types = u,
                                      !._obj.nTypes = n,
                                      !._obj.nSymTypes = (n * (n + 1)) \div 2], 0)

\* No guard and no validation: any value is stored, before or after
\* construction.
rcut_setter(s, value) ==
    Ok([s EXCEPT !._rcut = value, !._obj.cutoff = value])

bond_params_setter(s, value) ==
    IF s._inited THEN Raise(s, ErrBondLocked)
    ELSE IF value = None
    THEN Ok([s EXCEPT !._obj.n_bond_params = 0, !._bond_params = None])
    ELSE LET pmatrix == NpArray("init", value) IN
         IF Ndim(pmatrix) # 2 THEN Raise(s, ErrBondShape)
         ELSE IF pmatrix.shape[2] # 2 THEN Raise(s, ErrBondShape)
         ELSE Ok([s EXCEPT !._bond_params = pmatrix,
                           !._obj.n_bond_params = pmatrix.shape[1],
                           !._obj.bond_params = pmatrix])

bond_cos_params_setter(s, value) ==
    IF s._inited THEN Raise(s, ErrCosLocked)
    ELSE IF value = None
    THEN Ok([s EXCEPT !._obj.n_bond_cos_params = 0, !._bond_cos_params = None])
    ELSE LET pmatrix == NpArray("init", value) IN
         IF Ndim(pmatrix) # 1 THEN Raise(s, ErrCosShape)
         ELSE Ok([s EXCEPT !._bond_cos_params = pmatrix,
                           !._obj.n_bond_cos_params = pmatrix.shape[1],
                           !._obj.bond_cos_params = pmatrix])

ang_params_setter(s, value) ==
    IF s._inited THEN Raise(s, ErrAngLocked)
    ELSE IF value = None
    THEN Ok([s EXCEPT !._obj.n_ang_params = 0, !._ang_params = None])
    ELSE LET pmatrix == NpArray("init", value) IN
         IF Ndim(pmatrix) # 2 THEN Raise(s, ErrAngShape)
         ELSE IF pmatrix.shape[2] # 3 THEN Raise(s, ErrAngShape)
         ELSE Ok([s EXCEPT !._ang_params = pmatrix,
                           !._obj.n_ang_params = pmatrix.shape[1],
                           !._obj.ang_params = pmatrix])

\* _n_atoms_max is a plain attribute: the class defines no property for
\* it, so an assignment is ordinary attribute assignment.
n_atoms_max_assign(s, value) == Ok([s EXCEPT !._n_atoms_max = value])

(*************************** constructor ***********************************)
\* The object as __init__ fills it before the first guarded assignment.
NewObject(flatten) ==
    [_inited |-> FALSE, flatten |-> flatten, _obj |-> ACSFObject,
     _n_atoms_max |-> None, _types |-> None, _Zs |-> None,
     _bond_params |-> None, _bond_cos_params |-> None, _ang_params |-> None,
     _rcut |-> None, positions |-> None, distances |-> None,
     _acsfBuffer |-> None, acsf_bond |-> None, acsf_ang |-> None]

Then(r, F(_)) == IF r.err # NoException THEN r ELSE F(r.st)

\* ACSF.__init__; an exception leaves the caller without an object.
ACSF_init(n_atoms_max, types, bond_params, bond_cos_params, ang_params, flatten) ==
    LET s0 == NewObject(flatten) IN
    IF n_atoms_max <= 0 THEN Raise(s0, ErrNAtomsMax)
    ELSE
    LET r1 == types_setter([s0 EXCEPT !._n_atoms_max = n_atoms_max], types)
        r2 == Then(r1, LAMBDA s : bond_params_setter(s, bond_params))
        r3 == Then(r2, LAMBDA s : bond_cos_params_setter(s, bond_cos_params))
        r4 == Then(r3, LAMBDA s : ang_params_setter(s, ang_params))
        r5 == Then(r4, LAMBDA s : rcut_setter(s, DefaultRcut))
    IN Then(r5, LAMBDA s : Ok([s EXCEPT !._inited = TRUE]))

(*************************** the structure *********************************)
\* The external System: atomic numbers and positions.  Atom i sits on a
\* line at x = 2*i (i from 0), so neighbours are 2, 4, 6, ... apart.
AtomVals == {1, 6, 8}
TypeVals == {-1, 1, 8, TypeIDLen}

SeqsUpTo(S, n) == UNION {[1..m -> S] : m \in 0..n}

\* The structures described: an oxygen followed by hydrogens, of every
\* size up to one atom more than the largest capacity, and three small
\* ones, two of them with a carbon.
Chain(m) == [i \in 1..m |-> IF i = 1 THEN 8 ELSE 1]
StructZs == {Chain(m) : m \in 0..(MaxAtoms + 1)} \cup {<<1>>, <<6>>, <<1, 6>>}
Structures == [Z : StructZs]

NAtoms(system) == Len(system.Z)
Coord(i) == 2 * i
Abs(x) == IF x < 0 THEN -x ELSE x

\* system.get_atomic_numbers()
get_atomic_numbers(system) == PyList(system.Z)

\* system.get_positions(): one (x, y, z) row per atom.
get_positions(system) ==
    [k |-> "lol3", v |-> [i \in 1..NAtoms(system) |-> <<Coord(i - 1), 0, 0>>]]

\* system.get_distance_matrix(): the N x N matrix of pair distances, an
\* array the System owns.
get_distance_matrix(system) ==
    LET n == NAtoms(system) IN
    Arr("system", <<n, n>>,
        [e \in 1..(n * n) |-> Abs(Coord((e - 1) \div n) - Coord((e - 1) % n))])

(************************ the native library *******************************)
\* acsf_compute_acsfs reads the struct and writes one row of features per
\* atom through the acsfs pointer.  A feature is a sum of terms over
\* neighbours; it is kept as the bag of its non-zero terms, a set of
\* <<term, multiplicity>>, so that 0.0 is the empty set.
BagOf(J, T(_)) ==
    {<<x, Cardinality({j \in J : T(j) = x})>> : x \in {T(j) : j \in J}}

\* What the Z pointer yields.  It points at the array self._Zs held when
\* line 342 ran.  Once self._Zs is bound to another array that one is
\* freed: its block either still holds the old numbers or has been taken
\* for something else, and then every read yields an arbitrary value.
ZData(s, reused) ==
    IF s._obj.Z = s._Zs \/ ~reused THEN s._obj.Z.data ELSE << >>

ZAt(s, j, reused, oob) ==
    LET d == ZData(s, reused) IN IF j + 1 <= Len(d) THEN d[j + 1] ELSE oob

\* distances[i*natm + j]; past the end of the matrix the read is out of
\* bounds.
DistAt(s, i, j, oob) ==
    LET d == s._obj.distances.data
        e == i * s._obj.natm + j + 1
    IN IF e <= Len(d) THEN d[e] ELSE oob

SlotOf(s, j, reused, oob) == s._obj.typeID[ZAt(s, j, reused, oob)]

\* Unordered pairs of slots in ascending (min, max) order.
PairSlotOf(n, a, b) ==
    LET lo == IF a <= b THEN a ELSE b
        hi == IF a <= b THEN b ELSE a
    IN lo * n - ((lo * (lo - 1)) \div 2) + (hi - lo)

Min2(a, b) == IF a <= b THEN a ELSE b
Max2(a, b) == IF a <= b THEN b ELSE a

\* The k-th radial feature of atom i for type slot t.
G2Value(s, i, t, k, reused, oob) ==
    LET o == s._obj
        rc == o.cutoff
        J == {j \in 0..(o.natm - 1) :
                 /\ j # i
                 /\ SlotOf(s, j, reused, oob) = t
                 /\ DistAt(s, i, j, oob) < rc}
        r(j) == DistAt(s, i, j, oob)
    IN IF k = 0 THEN BagOf(J, LAMBDA j : <<"fc", r(j), rc>>)
       ELSE IF k <= o.n_bond_params
       THEN LET eta == o.bond_params.data[2 * (k - 1) + 1]
                Rs == o.bond_params.data[2 * (k - 1) + 2]
            IN BagOf(J, LAMBDA j : <<"rad", eta, Rs, r(j), rc>>)
       ELSE LET eta == o.bond_cos_params.data[k - o.n_bond_params]
            IN BagOf(J, LAMBDA j : <<"cos", eta, r(j), rc>>)

\* The k-th angular feature of atom i for pair slot p.
G3Value(s, i, p, k, reused, oob) ==
    LET o == s._obj
        rc == o.cutoff
        d(a, b) == DistAt(s, a, b, oob)
        JK == {jk \in (0..(o.natm - 1)) \X (0..(o.natm - 1)) :
                 /\ jk[1] < jk[2] /\ jk[1] # i /\ jk[2] # i
                 /\ PairSlotOf(o.nTypes, SlotOf(s, jk[1], reused, oob),
                               SlotOf(s, jk[2], reused, oob)) = p
                 /\ d(i, jk[1]) < rc /\ d(i, jk[2]) < rc
                 /\ d(jk[1], jk[2]) < rc}
        eta == o.ang_params.data[3 * k + 1]
        zeta == o.ang_params.data[3 * k + 2]
        lambda == o.ang_params.data[3 * k + 3]
    IN BagOf(JK, LAMBDA jk : <<"ang", eta, zeta, lambda,
                               Min2(d(i, jk[1]), d(i, jk[2])),
                               Max2(d(i, jk[1]), d(i, jk[2])),
                               d(jk[1], jk[2]), rc>>)

\* Element `col` of atom i's row.
Feature(s, i, col, reused, oob) ==
    LET o == s._obj IN
    IF col < o.nTypes * o.nG2
    THEN G2Value(s, i, col \div o.nG2, col % o.nG2, reused, oob)
    ELSE LET c == col - o.nTypes * o.nG2
         IN G3Value(s, i, c \div o.nG3, c % o.nG3, reused, oob)

\* The array the acsfs pointer reaches: the one in that block of the
\* heap, or nothing when the block has been freed and not taken again.
Target(s, h) ==
    IF h[s._obj.acsfs] # None THEN s._obj.acsfs ELSE "nowhere"

\* The library's loop body for atom i: the features of the atom, computed
\* from the struct as it is now, written at acsfs[i*width ...].  A write
\* that falls outside the array the pointer reaches is lost.
acsf_row(s, h, i, reused, oob) ==
    LET o == s._obj
        width == o.nG2 * o.nTypes + o.nG3 * o.nSymTypes
        b == Target(s, h)
    IN IF b = "nowhere" THEN h
       ELSE [h EXCEPT ![b].data =
                [e \in 1..Len(h[b].data) |->
                    IF width > 0 /\ (e - 1) \div width = i
                    THEN Feature(s, i, (e - 1) % width, reused, oob)
                    ELSE h[b].data[e]]]

\* for (i = 0; i < natm; i++): one row per atom.
RECURSIVE acsf_rows(_, _, _, _, _)
acsf_rows(s, h, i, reused, oob) ==
    IF i >= s._obj.natm THEN h
    ELSE acsf_rows(s, acsf_row(s, h, i, reused, oob), i + 1, reused, oob)

acsf_compute_acsfs(s, h, reused, oob) == acsf_rows(s, h, 0, reused, oob)

(****************************** describe ***********************************)
BufIds == {"A", "B"}
Other(id) == IF id = "A" THEN "B" ELSE "A"

Ref(id) == [k |-> "ref", id |-> id]

Out(s, h, e, r) == [st |-> s, heap |-> h, err |-> e, ret |-> r]

\* The statements of describe, one definition per line of the source.
\* Line 336.
describe_336(s, system, id) ==
    [s EXCEPT !._Zs = NpArray(id, get_atomic_numbers(system))]

\* Lines 338-339.
describe_338(s) ==
    IF s._Zs.shape[1] > s._n_atoms_max THEN Raise(s, ErrTooManyAtoms) ELSE Ok(s)

\* Line 342: the pointer made of self._Zs, then the store.
describe_342_value(s) == s._Zs
describe_342_store(s, v) == [s EXCEPT !._obj.Z = v]
describe_342(s) == describe_342_store(s, describe_342_value(s))

\* Line 343: self._Zs.shape[0], then the store.
describe_343_value(s) == s._Zs.shape[1]
describe_343_store(s, v) == [s EXCEPT !._obj.natm = v]
describe_343(s) == describe_343_store(s, describe_343_value(s))

\* Lines 336-343: copy the atomic numbers, check the capacity, point the
\* struct at the copy.
describe_Zs(s, system, id) ==
    LET r == describe_338(describe_336(s, system, id))
    IN IF r.err # NoException THEN r
       ELSE Ok(describe_343(describe_342(r.st)))

\* Lines 346-356: every atomic number must be declared.
describe_346(s, system, id) ==
    LET typs == NpSort(NpUnique(NpArray(id, get_atomic_numbers(system))))
        isin == NpUniqueBool(NpIn1d(typs, s._types))
    IN IF Len(isin) > 1 THEN Raise(s, ErrUndeclared)
       ELSE IF Len(isin) = 0 THEN Raise(s, ErrIsinIndex)
       ELSE IF isin[1] = FALSE THEN Raise(s, ErrUndeclared)
       ELSE Ok(s)

\* Line 359.
describe_359(s, system, id) ==
    [s EXCEPT !.positions =
        Arr(id, <<NAtoms(system), 3>>, Concat(get_positions(system).v))]

\* Line 360: the pointer made of self.positions, then the store.
describe_360_value(s) == s.positions
describe_360_store(s, v) == [s EXCEPT !._obj.positions = v]
describe_360(s) == describe_360_store(s, describe_360_value(s))

\* Line 362.
describe_362(s, system) == [s EXCEPT !.distances = get_distance_matrix(system)]

\* Line 363: the pointer made of self.distances, then the store.
describe_363_value(s) == s.distances
describe_363_store(s, v) == [s EXCEPT !._obj.distances = v]
describe_363(s) == describe_363_store(s, describe_363_value(s))

\* Lines 346-363: the declared-types check, then the positions and the
\* distance matrix.
describe_positions(s, system, id) ==
    LET r == describe_346(s, system, id)
    IN IF r.err # NoException THEN r
       ELSE Ok(describe_363(describe_362(
                  describe_360(describe_359(r.st, system, id)), system)))

\* Line 367.
describe_367(s) ==
    [s EXCEPT !._obj.nG2 = 1 + s._obj.n_bond_params + s._obj.n_bond_cos_params]

\* Line 368.
describe_368(s) == [s EXCEPT !._obj.nG3 = s._obj.n_ang_params]

\* Line 371, np.zeros(...): a fresh zeroed array.
describe_371_value(s, id) ==
    LET o == s._obj
    IN NpZeros(id, <<s._n_atoms_max, o.nG2 * o.nTypes + o.nG3 * o.nSymTypes>>)

\* Line 371, the assignment: the array becomes self._acsfBuffer and the
\* one it replaces is freed unless something else refers to it (keep).
describe_371_store(s, h, id, keep) ==
    LET old == s._acsfBuffer
    IN [st |-> [s EXCEPT !._acsfBuffer = Ref(id)],
        heap |-> [b \in BufIds |->
                    IF b # id /\ old # None /\ b = old.id /\ b \notin keep
                    THEN None ELSE h[b]]]

describe_371(s, h, id, keep) ==
    describe_371_store(s, [h EXCEPT ![id] = describe_371_value(s, id)], id, keep)

\* Line 372: the pointer made of self._acsfBuffer, then the store.
describe_372_value(s) == s._acsfBuffer.id
describe_372_store(s, v) == [s EXCEPT !._obj.acsfs = v]
describe_372(s) == describe_372_store(s, describe_372_value(s))

\* describe_alloc with the buffer of the call before kept and written again
\* instead of a fresh zeroed one.
describe_alloc_reuse(s, h, id, keep) ==
    LET o == s._obj
        nG2 == 1 + o.n_bond_params + o.n_bond_cos_params
        nG3 == o.n_ang_params
        buf == NpZeros(id, <<s._n_atoms_max, nG2 * o.nTypes + nG3 * o.nSymTypes>>)
        old == s._acsfBuffer
    IN IF old # None
       THEN [st |-> [s EXCEPT !._obj.nG2 = nG2, !._obj.nG3 = nG3,
                              !._obj.acsfs = old.id],
             heap |-> h]
       ELSE [st |-> [s EXCEPT !._obj.nG2 = nG2, !._obj.nG3 = nG3,
                              !._acsfBuffer = Ref(id), !._obj.acsfs = id],
             heap |-> [h EXCEPT ![id] = buf]]

\* Lines 367-372: the sizes, a fresh zeroed buffer, the struct pointed at
\* it.
describe_alloc(s, h, id, keep) ==
    LET a == describe_371(describe_368(describe_367(s)), h, id, keep)
    IN [st |-> describe_372(a.st), heap |-> a.heap]

\* Lines 377-380: a flattened copy, or the buffer itself.
describe_return(s, h, id) ==
    IF s.flatten = TRUE THEN NpFlatten(id, h[s._acsfBuffer.id])
    ELSE s._acsfBuffer

\* Line 330, `if self._types == None`, on the array the constructor
\* stored.  What `array == None` is depends on the numpy the code runs
\* with: before 1.13 it is False; from 1.13 on it is the element-wise
\* comparison, an array of False, whose truth value is False for at most
\* one element and an error for more.
Builds == {"numpy<1.13", "numpy>=1.13"}

describe_types(s, build) ==
    IF s._types = None THEN Raise(s, ErrNoTypes)
    ELSE IF build = "numpy>=1.13" /\ s._types.shape[1] > 1 THEN Raise(s, ErrAmbiguous)
    ELSE Ok(s)

\* ACSF.describe as one call.
describe(s, h, system, id, keep, reused, oob, build) ==
    LET r0 == describe_types(s, build)
        r1 == Then(r0, LAMBDA x : describe_Zs(x, system, id))
        r2 == Then(r1, LAMBDA x : describe_positions(x, system, id))
    IN IF r2.err # NoException THEN Out(r2.st, h, r2.err, None)
       ELSE LET a == describe_alloc(r2.st, h, id, keep)
                h2 == acsf_compute_acsfs(a.st, a.heap, reused, oob)
            IN Out(a.st, h2, NoException, describe_return(a.st, h2, id))

\* get_number_of_features with the angular features counted per type
\* instead of per pair of types.
get_number_of_features_per_type(s) ==
    LET o == s._obj
        descsize == (1 + o.n_bond_params + o.n_bond_cos_params) * o.nTypes
                    + o.n_ang_params * o.nTypes
    IN descsize * s._n_atoms_max

\* ACSF.get_number_of_features
get_number_of_features(s) ==
    LET o == s._obj
        descsize == (1 + o.n_bond_params + o.n_bond_cos_params) * o.nTypes
                    + o.n_ang_params * o.nSymTypes
    IN descsize * s._n_atoms_max

(****************************** inputs *************************************)
TypesInputs ==
    {None} \cup {PyList(v) : v \in SeqsUpTo(TypeVals, MaxTypesLen)}
           \cup {PyLoL(<<<<1, 8>>>>)}
BondInputs == {None, PyList(<< >>), PyLoL(<<<<1, 0>>>>), PyLoL(<<<<1, 0, 1>>>>)}
CosInputs == {None, PyList(<< >>), PyList(<<1, 2>>), PyLoL(<<<<1, 0>>>>)}
AngInputs == {None, PyList(<< >>), PyLoL(<<<<1, 1, 1>>>>), PyLoL(<<<<1, 2>>>>)}
RcutInputs == {0}

\* Values assigned to the guarded properties of a constructed engine.
AssignedTypes == {None, PyList(<<1>>)}
AssignedBond == {None, PyLoL(<<<<1, 0>>>>)}
AssignedCos == {None, PyList(<<1, 2>>)}
AssignedAng == {None, PyLoL(<<<<1, 1, 1>>>>)}
OobVals == {0, 1}

NoEngine == [k |-> "NoEngine"]
NoCall == [op |-> "none"]
Threads == BufIds

IsBuffer(r) == r.k \in {"ref", "ndarray"}

\* The array a returned value denotes now.
Deref(r, h) == IF r.k = "ref" THEN h[r.id] ELSE r

\* What the caller keeps of an earlier result: the value and its content
\* when it was returned.
Holding(r, hd, h) == IF IsBuffer(r) THEN [r |-> r, snap |-> Deref(r, h)] ELSE hd

HeldIds(r, hd) ==
    (IF r.k = "ref" THEN {r.id} ELSE {})
    \cup (IF hd # None /\ hd.r.k = "ref" THEN {hd.r.id} ELSE {})

FreshId(s) == IF s._acsfBuffer = None THEN "A" ELSE Other(s._acsfBuffer.id)

\* The parameter tables the constructed engines of Spec are built with.
ParamSets ==
    {<<None, None, None>>,
     <<PyLoL(<<<<1, 0>>>>), PyList(<<1, 2>>), PyLoL(<<<<1, 1, 1>>>>)>>}
EngineTypes == {PyList(<< >>), PyList(<<8, 1>>)}

Idle ==
    /\ pc = [t \in Threads |-> "idle"]
    /\ sys = [t \in Threads |-> None]
    /\ tret = [t \in Threads |-> None]
    /\ row = [t \in Threads |-> 0]
    /\ tmp = [t \in Threads |-> None]

Quiet ==
    /\ numpy \in Builds
    /\ heap = [b \in BufIds |-> None]
    /\ raised = NoException
    /\ ret = None
    /\ held = None

\* Before any ACSF object exists.
InitCtor ==
    /\ phase = "new"
    /\ self = NoEngine
    /\ ctor = NoEngine
    /\ call = NoCall
    /\ Quiet
    /\ Idle

\* A constructed engine.
Constructed(ns, tys, pss, fls) ==
    \E n \in ns, ty \in tys, ps \in pss, fl \in fls :
       LET r == ACSF_init(n, ty, ps[1], ps[2], ps[3], fl) IN
       /\ r.err = NoException
       /\ phase = "constructed"
       /\ self = r.st
       /\ ctor = r.st
       /\ call = [op |-> "init", n_atoms_max |-> n, types |-> ty,
                  bond_params |-> ps[1], bond_cos_params |-> ps[2],
                  ang_params |-> ps[3], flatten |-> fl]

Init ==
    /\ Constructed(1..MaxAtoms, EngineTypes, ParamSets, BOOLEAN)
    /\ Quiet
    /\ Idle

(****************************** actions ************************************)
Construct ==
    /\ phase = "new"
    /\ \E n \in 0..MaxAtoms, ty \in TypesInputs, bp \in BondInputs,
          cp \in CosInputs, ap \in AngInputs, fl \in BOOLEAN :
         LET r == ACSF_init(n, ty, bp, cp, ap, fl) IN
         /\ phase' = IF r.err = NoException THEN "constructed" ELSE "failed"
         /\ self' = IF r.err = NoException THEN r.st ELSE NoEngine
         /\ ctor' = self'
         /\ raised' = r.err
         /\ call' = [op |-> "init", n_atoms_max |-> n, types |-> ty,
                     bond_params |-> bp, bond_cos_params |-> cp,
                     ang_params |-> ap, flatten |-> fl]
    /\ UNCHANGED <<numpy, heap, ret, held, pc, sys, tret, row, tmp>>

\* An assignment to a property or attribute of the constructed object.
Assign(op, r) ==
    /\ self' = r.st
    /\ raised' = r.err
    /\ call' = [op |-> op]
    /\ ret' = None
    /\ UNCHANGED <<numpy, phase, heap, held, ctor, pc, sys, tret, row, tmp>>

SetTypes ==
    /\ phase = "constructed"
    /\ \E v \in AssignedTypes : Assign("types", types_setter(self, v))

SetBondParams ==
    /\ phase = "constructed"
    /\ \E v \in AssignedBond : Assign("bond_params", bond_params_setter(self, v))

SetBondCosParams ==
    /\ phase = "constructed"
    /\ \E v \in AssignedCos : Assign("bond_cos_params", bond_cos_params_setter(self, v))

SetAngParams ==
    /\ phase = "constructed"
    /\ \E v \in AssignedAng : Assign("ang_params", ang_params_setter(self, v))

SetRcut ==
    /\ phase = "constructed"
    /\ \E v \in RcutInputs : Assign("rcut", rcut_setter(self, v))

SetNAtomsMax ==
    /\ phase = "constructed"
    /\ \E v \in {1} : Assign("n_atoms_max", n_atoms_max_assign(self, v))

\* One describe call; keep holds the buffers the caller still refers to.
\* Within one call every pointer the native code follows was set by that
\* call (Z, distances and acsfs at lines 342, 363, 372) and natm is the
\* length of Z, so no read is dangling or out of bounds and the last two
\* arguments of describe are never consulted.
DescribeCall(keep) ==
    /\ phase = "constructed"
    /\ \E system \in Structures :
         LET out == describe(self, heap, system, FreshId(self), keep, FALSE, 0, numpy) IN
         /\ self' = out.st
         /\ heap' = out.heap
         /\ raised' = out.err
         /\ ret' = out.ret
         /\ call' = [op |-> "describe", system |-> system]
    /\ UNCHANGED <<numpy, phase, ctor, pc, sys, tret, row, tmp>>

\* The caller lets go of the previous result when it calls again.
Describe ==
    /\ DescribeCall({})
    /\ UNCHANGED held

\* The caller keeps the previous result.
DescribeHolding ==
    /\ DescribeCall(HeldIds(ret, held))
    /\ held' = Holding(ret, held, heap)

GetNumberOfFeatures ==
    /\ phase = "constructed"
    /\ ret' = [k |-> "int", v |-> get_number_of_features(self)]
    /\ raised' = NoException
    /\ call' = [op |-> "get_number_of_features"]
    /\ UNCHANGED <<numpy, phase, self, heap, held, ctor, pc, sys, tret, row, tmp>>

(*************************** specifications ********************************)
NextCtor == Construct

SpecCtor == InitCtor /\ [][NextCtor]_vars

Next ==
    \/ SetTypes
    \/ SetBondParams
    \/ SetBondCosParams
    \/ SetAngParams
    \/ SetRcut
    \/ SetNAtomsMax
    \/ Describe
    \/ GetNumberOfFeatures

Spec == Init /\ [][Next]_vars

InitSeq ==
    /\ Constructed({MaxAtoms}, {PyList(<<1>>), PyList(<<8, 1>>)}, ParamSets, BOOLEAN)
    /\ Quiet
    /\ Idle

NextSeq == DescribeHolding

SpecSeq == InitSeq /\ [][NextSeq]_vars

(************************* concurrent callers ******************************)
\* Two callers run describe on one engine.  A caller may be switched out
\* between any two statements of describe, and inside a statement between
\* the load of an attribute of the engine and the store of what was made of
\* it: such a statement is two steps, and tmp[t] is the value on the
\* caller's stack in between.  pc[t] is the step the caller t takes next.
\* The native call of line 375 runs without the interpreter lock: it takes
\* one row per step, reading the shared struct as it is at that step.
Raised(e) == [k |-> "raise", err |-> e]

PyInt(n) == [k |-> "int", v |-> n]

\* The arrays the callers refer to through what describe returned.
CallerHeld == {tret[o].id : o \in {u \in Threads : tret[u].k = "ref"}}

\* The buffers referred to from the stack of a caller inside line 378.
StackHeld == {tmp[o].id : o \in {u \in Threads : pc[u] = "378"}}

\* The structures the concurrent callers describe: one and two declared
\* atoms, an undeclared atom, and one atom more than the capacity.
ConcStructures == [Z : {<<1>>, <<8, 1>>, <<6>>, Chain(MaxAtoms + 1)}]

Goto(t, l) == pc' = [pc EXCEPT ![t] = l]

Fail(t, e) ==
    /\ pc' = [pc EXCEPT ![t] = "failed"]
    /\ tret' = [tret EXCEPT ![t] = Raised(e)]

\* A statement that may raise and changes nothing.
Check(t, r, l) ==
    /\ IF r.err = NoException THEN Goto(t, l) /\ UNCHANGED tret ELSE Fail(t, r.err)
    /\ UNCHANGED <<numpy, phase, self, heap, call, raised, ret, held, ctor, row, tmp>>

\* The first half of a statement: the value made of an attribute of the
\* engine is on the caller's stack.
Load(t, v, l) ==
    /\ tmp' = [tmp EXCEPT ![t] = v]
    /\ Goto(t, l)
    /\ UNCHANGED <<numpy, phase, self, heap, call, raised, ret, held, ctor, sys, tret, row>>

\* An assignment to the engine or its struct.
Store(t, s, l) ==
    /\ self' = s
    /\ tmp' = [tmp EXCEPT ![t] = None]
    /\ Goto(t, l)
    /\ UNCHANGED <<numpy, phase, heap, call, raised, ret, held, ctor, sys, tret, row>>

\* The call, and line 330.
T_330(t) ==
    /\ pc[t] = "idle"
    /\ \E system \in ConcStructures : sys' = [sys EXCEPT ![t] = system]
    /\ Check(t, describe_types(self, numpy), "336")

\* The array is made of the caller's structure; the store is the only
\* access to the engine.
T_336(t) ==
    /\ pc[t] = "336"
    /\ Store(t, describe_336(self, sys[t], t), "338")

\* self._n_atoms_max is assigned by no caller.
T_338(t) ==
    /\ pc[t] = "338"
    /\ Check(t, describe_338(self), "342")
    /\ UNCHANGED sys

T_342(t) ==
    /\ pc[t] = "342"
    /\ Load(t, describe_342_value(self), "342.store")

T_342_store(t) ==
    /\ pc[t] = "342.store"
    /\ Store(t, describe_342_store(self, tmp[t]), "343")

T_343(t) ==
    /\ pc[t] = "343"
    /\ Load(t, PyInt(describe_343_value(self)), "343.store")

T_343_store(t) ==
    /\ pc[t] = "343.store"
    /\ Store(t, describe_343_store(self, tmp[t].v), "346")

\* Lines 346-356 work on locals and on self._types, which no caller
\* assigns.
T_346(t) ==
    /\ pc[t] = "346"
    /\ Check(t, describe_346(self, sys[t], t), "359")
    /\ UNCHANGED sys

T_359(t) ==
    /\ pc[t] = "359"
    /\ Store(t, describe_359(self, sys[t], t), "360")

T_360(t) ==
    /\ pc[t] = "360"
    /\ Load(t, describe_360_value(self), "360.store")

T_360_store(t) ==
    /\ pc[t] = "360.store"
    /\ Store(t, describe_360_store(self, tmp[t]), "362")

T_362(t) ==
    /\ pc[t] = "362"
    /\ Store(t, describe_362(self, sys[t]), "363")

T_363(t) ==
    /\ pc[t] = "363"
    /\ Load(t, describe_363_value(self), "363.store")

T_363_store(t) ==
    /\ pc[t] = "363.store"
    /\ Store(t, describe_363_store(self, tmp[t]), "367")

\* Lines 367 and 368 read the table sizes, which no caller assigns.
T_367(t) ==
    /\ pc[t] = "367"
    /\ Store(t, describe_367(self), "368")

T_368(t) ==
    /\ pc[t] = "368"
    /\ Store(t, describe_368(self), "371")

\* Line 371, np.zeros(...): the new array exists, referred to from the
\* caller's stack only.
T_371(t) ==
    /\ pc[t] = "371"
    /\ heap' = [heap EXCEPT ![t] = describe_371_value(self, t)]
    /\ Goto(t, "371.store")
    /\ UNCHANGED <<numpy, phase, self, call, raised, ret, held, ctor, sys, tret, row, tmp>>

\* Line 371, the assignment to self._acsfBuffer.
T_371_store(t) ==
    /\ pc[t] = "371.store"
    /\ LET a == describe_371_store(self, heap, t, CallerHeld \cup StackHeld) IN
         /\ self' = a.st
         /\ heap' = a.heap
    /\ Goto(t, "372")
    /\ UNCHANGED <<numpy, phase, call, raised, ret, held, ctor, sys, tret, row, tmp>>

T_372(t) ==
    /\ pc[t] = "372"
    /\ Load(t, Ref(describe_372_value(self)), "372.store")

T_372_store(t) ==
    /\ pc[t] = "372.store"
    /\ Store(t, describe_372_store(self, tmp[t].id), "375")

\* Line 375: the library's loop, one atom per step; row[t] is its counter
\* and natm is read from the struct at every turn.
T_375(t) ==
    /\ pc[t] = "375"
    /\ IF row[t] < self._obj.natm
       THEN /\ \E reused \in BOOLEAN, oob \in OobVals :
                 heap' = acsf_row(self, heap, row[t], reused, oob)
            /\ row' = [row EXCEPT ![t] = @ + 1]
            /\ UNCHANGED pc
       ELSE /\ Goto(t, "377")
            /\ row' = [row EXCEPT ![t] = 0]
            /\ UNCHANGED heap
    /\ UNCHANGED <<numpy, phase, self, call, raised, ret, held, ctor, sys, tret, tmp>>

\* Line 377, and the load of self._acsfBuffer of line 378 or the return of
\* line 380.  self.flatten is assigned by no caller.
T_377(t) ==
    /\ pc[t] = "377"
    /\ IF self.flatten = TRUE
       THEN /\ tmp' = [tmp EXCEPT ![t] = self._acsfBuffer]
            /\ Goto(t, "378")
            /\ UNCHANGED tret
       ELSE /\ tret' = [tret EXCEPT ![t] = self._acsfBuffer]
            /\ Goto(t, "done")
            /\ UNCHANGED tmp
    /\ UNCHANGED <<numpy, phase, self, heap, call, raised, ret, held, ctor, sys, row>>

\* A block of the heap that held a buffer of describe and was freed.
Freed(b) ==
    /\ heap[b] = None
    /\ pc[b] \in {"372", "372.store", "375", "377", "378", "done"}

\* The heap once the caller t has dropped the buffer it flattened: the
\* buffer is freed unless the engine or a caller refers to it.
Dropped(t, h) ==
    LET b == tmp[t].id IN
    IF b = self._acsfBuffer.id \/ b \in CallerHeld
       \/ \E u \in Threads \ {t} : pc[u] = "378" /\ tmp[u].id = b
    THEN h ELSE [h EXCEPT ![b] = None]

\* Line 378, .flatten() and the return.  The copy is a new array of the
\* size of a buffer: the allocator places it in a block of its own, or in
\* the block of a buffer freed before.
T_378(t) ==
    /\ pc[t] = "378"
    /\ LET r == NpFlatten(t, heap[tmp[t].id]) IN
         \/ /\ tret' = [tret EXCEPT ![t] = r]
            /\ heap' = Dropped(t, heap)
         \/ \E b \in BufIds :
               /\ Freed(b)
               /\ heap' = Dropped(t, [heap EXCEPT ![b] = r])
               /\ tret' = [tret EXCEPT ![t] = Ref(b)]
    /\ tmp' = [tmp EXCEPT ![t] = None]
    /\ Goto(t, "done")
    /\ UNCHANGED <<numpy, phase, self, call, raised, ret, held, ctor, sys, row>>

InitConc ==
    /\ Constructed({MaxAtoms}, {PyList(<<8, 1>>)}, ParamSets, BOOLEAN)
    /\ Quiet
    /\ Idle

NextConc ==
    \E t \in Threads :
       \/ T_330(t)
       \/ T_336(t)
       \/ T_338(t)
       \/ T_342(t)
       \/ T_342_store(t)
       \/ T_343(t)
       \/ T_343_store(t)
       \/ T_346(t)
       \/ T_359(t)
       \/ T_360(t)
       \/ T_360_store(t)
       \/ T_362(t)
       \/ T_363(t)
       \/ T_363_store(t)
       \/ T_367(t)
       \/ T_368(t)
       \/ T_371(t)
       \/ T_371_store(t)
       \/ T_372(t)
       \/ T_372_store(t)
       \/ T_375(t)
       \/ T_377(t)
       \/ T_378(t)

SpecConc == InitConc /\ [][NextConc]_vars

(******************************* claims ************************************)
Same(a, b) == a.shape = b.shape /\ a.data = b.data

\* A constructed engine with at least one declared type.
Usable == phase = "constructed" /\ self._obj.nTypes > 0

AssignOps == {"types", "bond_params", "bond_cos_params", "ang_params", "n_atoms_max"}

\* C1 (as stated): on a constructed engine types, the three parameter
\* tables and n_atoms_max keep the values fixed at construction, and every
\* assignment to one of them fails with an error.  Stated for engines with
\* declared types.
C1_ConfigLocked ==
    Usable =>
       /\ self._types = ctor._types
       /\ self._bond_params = ctor._bond_params
       /\ self._bond_cos_params = ctor._bond_cos_params
       /\ self._ang_params = ctor._ang_params
       /\ self._n_atoms_max = ctor._n_atoms_max
       /\ (call.op \in AssignOps => raised # NoException)

\* C2 (as stated): construction with types=None or with an empty types
\* sequence fails, and no engine with nTypes = 0 is ever constructed.
C2_EmptyTypesRejected ==
    /\ (call.op = "init" /\ (call.types = None \/ call.types = PyList(<< >>))
           => phase = "failed" /\ raised # NoException)
    /\ (phase = "constructed" => self._obj.nTypes > 0)

Declared(s, system) == \A i \in 1..NAtoms(system) : system.Z[i] \in Range(s._types.data)

\* C3 (as stated): describe fails with TooManyAtoms when the structure has
\* more atoms than n_atoms_max, otherwise with UnknownType when an atomic
\* number is undeclared, otherwise returns a buffer; this for every
\* structure, the one with zero atoms included.  Stated for engines with
\* declared types.
C3_DescribeOutcome ==
    (Usable /\ call.op = "describe") =>
       IF NAtoms(call.system) > self._n_atoms_max
       THEN raised = ErrTooManyAtoms /\ ret = None
       ELSE IF ~Declared(self, call.system)
       THEN raised = ErrUndeclared /\ ret = None
       ELSE raised = NoException /\ IsBuffer(ret)

Rows(table) == IF table = None THEN 0 ELSE table.shape[1]

\* n_atoms_max * (nTypes*(1 + |bond_params| + |bond_cos_params|)
\*                + nSymTypes*|ang_params|), from the stored tables.
ExpectedFeatures(s) ==
    LET nTypes == Len(s._types.data)
        nSymTypes == (nTypes * (nTypes + 1)) \div 2
    IN s._n_atoms_max * (nTypes * (1 + Rows(s._bond_params) + Rows(s._bond_cos_params))
                         + nSymTypes * Rows(s._ang_params))

\* C4: get_number_of_features() returns n_atoms_max * (nTypes*(1 +
\* |bond_params| + |bond_cos_params|) + nSymTypes*|ang_params|) without
\* error, also before any describe call, and every buffer describe returns
\* has exactly that many elements, as n_atoms_max rows when not flattened.
C4_NumberOfFeatures ==
    phase = "constructed" =>
       /\ call.op = "get_number_of_features" =>
             raised = NoException /\ ret.v = ExpectedFeatures(self)
       /\ (call.op = "describe" /\ IsBuffer(ret)) =>
             LET buf == Deref(ret, heap) IN
             /\ Size(buf) = get_number_of_features(self)
             /\ Len(buf.data) = ExpectedFeatures(self)
             /\ IF self.flatten THEN Ndim(buf) = 1
                ELSE Ndim(buf) = 2 /\ buf.shape[1] = self._n_atoms_max

\* C4 witness: describe has returned a non-empty buffer for a structure
\* with fewer atoms than the capacity, angular features included.
C4_Witness ==
    /\ phase = "constructed"
    /\ call.op = "describe"
    /\ IsBuffer(ret)
    /\ NAtoms(call.system) > 0
    /\ NAtoms(call.system) < self._n_atoms_max
    /\ Rows(self._ang_params) > 0
    /\ Size(Deref(ret, heap)) > 0

ValidTypes(ty) ==
    /\ ty.k = "list"
    /\ Len(ty.v) > 0
    /\ \A i \in 1..Len(ty.v) : ty.v[i] >= 0 /\ ty.v[i] < TypeIDLen

\* C5 (as stated): construction with the three parameter tables given as
\* empty sequences succeeds with every family disabled, so that nG2 = 1,
\* nG3 = 0 and the width per atom is nTypes.
C5_EmptyTablesDisable ==
    (/\ call.op = "init"
     /\ call.n_atoms_max > 0
     /\ ValidTypes(call.types)
     /\ call.bond_params = PyList(<< >>)
     /\ call.bond_cos_params = PyList(<< >>)
     /\ call.ang_params = PyList(<< >>))
    => /\ phase = "constructed"
       /\ 1 + self._obj.n_bond_params + self._obj.n_bond_cos_params = 1
       /\ self._obj.n_ang_params = 0
       /\ get_number_of_features(self) = self._n_atoms_max * self._obj.nTypes

\* C6 (as stated): the cutoff radius of a constructed engine is positive
\* and stays the value fixed at construction; assigning rcut is rejected.
\* Stated for engines with declared types.
C6_RcutFixedPositive ==
    Usable =>
       /\ self._rcut = ctor._rcut
       /\ self._obj.cutoff = ctor._obj.cutoff
       /\ self._rcut > 0
       /\ (call.op = "rcut" => raised # NoException)

NoBuffers == [b \in BufIds |-> None]

\* describe(system) on the engine as it was constructed.
FreshDescribe(system) == describe(ctor, NoBuffers, system, "A", {}, FALSE, 0, numpy)

\* C7: whatever describe calls came before, describe(S) ends as it does on
\* a freshly constructed engine with the same configuration (same error,
\* or a buffer with the same shape and content), and the result the caller
\* kept from the call before still has the content it was returned with.
C7_DescribeIndependent ==
    phase = "constructed" =>
       /\ call.op = "describe" =>
             LET fresh == FreshDescribe(call.system) IN
             /\ raised = fresh.err
             /\ IsBuffer(ret) = IsBuffer(fresh.ret)
             /\ IsBuffer(ret) =>
                   Same(Deref(ret, heap), Deref(fresh.ret, fresh.heap))
       /\ held # None => Same(Deref(held.r, heap), held.snap)

\* C7 witness: describe has returned a buffer while the caller still holds
\* the buffer itself (not a copy) of an earlier call, and some feature is
\* zero now that was not zero in the earlier result.
C7_Witness ==
    /\ phase = "constructed"
    /\ call.op = "describe"
    /\ IsBuffer(ret)
    /\ held # None
    /\ held.r.k = "ref"
    /\ \E e \in 1..Len(held.snap.data) :
          held.snap.data[e] # Zero /\ Deref(ret, heap).data[e] = Zero

\* C8 (as stated): each of two concurrent describe calls returns exactly
\* the buffer a solitary describe of its own structure returns.
C8_ConcurrentIsolation ==
    \A t \in Threads :
       pc[t] = "done" =>
          LET solo == FreshDescribe(sys[t]) IN
          /\ IsBuffer(solo.ret)
          /\ Same(Deref(tret[t], heap), Deref(solo.ret, solo.heap))

\* C9 (as stated): for every types input that is a sequence of
\* non-negative integers, construction stores the distinct values in
\* ascending order, sets nTypes and nSymTypes = nTypes*(nTypes+1)/2, and
\* maps the i-th smallest declared atomic number to slot i.
C9_TypesSortedIndexed ==
    (/\ call.op = "init"
     /\ call.n_atoms_max > 0
     /\ call.types.k = "list"
     /\ \A i \in 1..Len(call.types.v) : call.types.v[i] >= 0
     /\ call.bond_params = None
     /\ call.bond_cos_params = None
     /\ call.ang_params = None)
    => /\ phase = "constructed"
       /\ LET S == Range(call.types.v)
              n == Cardinality(S)
          IN /\ Range(self._types.data) = S
             /\ Len(self._types.data) = n
             /\ \A i \in 1..(n - 1) : self._types.data[i] < self._types.data[i + 1]
             /\ self._obj.nTypes = n
             /\ self._obj.nSymTypes = (n * (n + 1)) \div 2
             /\ \A i \in 1..n : self._obj.typeID[self._types.data[i]] = i - 1

\* C10 (as stated): after describe has returned or failed the engine holds
\* nothing derived from the structure: the stored atomic numbers, atom
\* count, positions and distances are as they were at construction.
\* Stated for the calls that return, or fail with one of the two errors
\* describe documents, on an engine with declared types.
C10_NoResidue ==
    (/\ Usable
     /\ call.op = "describe"
     /\ raised \in {NoException, ErrTooManyAtoms, ErrUndeclared})
    => /\ /\ self._Zs = ctor._Zs
          /\ self.positions = ctor.positions
          /\ self.distances = ctor.distances
          /\ self._obj.natm = ctor._obj.natm
          /\ self._obj.Z = ctor._obj.Z
          /\ self._obj.positions = ctor._obj.positions
          /\ self._obj.distances = ctor._obj.distances

====
